---- MODULE Spec2Model ----
(***************************************************************************)
(* Model of custom_components/xiaomi_miio_fan/fan_1c.py: the MIoT property *)
(* mapping, the FanStatus1C container and the Fan1C command methods.       *)
(*                                                                         *)
(* Fan1C keeps no field of its own between two calls: every method only    *)
(* talks to the transport (MiotDevice.get_properties_for_mapping and       *)
(* MiotDevice.set_property) and returns.  A behaviour is therefore one     *)
(* invocation from the constructed adapter: the method, its argument and   *)
(* the transport's reply are the inputs, the transport calls it issued and *)
(* what reached the caller are the result.                                 *)
(***************************************************************************)
EXTENDS Integers, Sequences, FiniteSets

VARIABLES op, arg, reply, calls, outcome, output

vars == <<op, arg, reply, calls, outcome, output>>

\* Integer arguments tried for set_direct_speed and delay_off: -ArgRange..ArgRange.
ArgRange == 4

----------------------------------------------------------------------------
(* Python values, tagged with their type.                                  *)

PyNone == [t |-> "None", v |-> "None"]
PyInt(n) == [t |-> "int", v |-> n]
PyBool(b) == [t |-> "bool", v |-> b]
PyStr(s) == [t |-> "str", v |-> s]
PyList(s) == [t |-> "list", v |-> s]
PyExc(e) == [t |-> "exception", v |-> e]

\* The integer a bool or an int compares as.
AsInt(x) == IF x.t = "bool" THEN (IF x.v THEN 1 ELSE 0) ELSE x.v

IsNumber(x) == x.t \in {"int", "bool"}

\* Python's ==: True == 1 and False == 0, None equals only None.
PyEq(x, y) ==
    IF IsNumber(x) /\ IsNumber(y) THEN AsInt(x) = AsInt(y) ELSE x = y

\* Python's truth value of x, as `if x` tests it.
Truthy(x) ==
    CASE x.t = "None" -> FALSE
      [] x.t = "bool" -> x.v
      [] x.t = "int" -> x.v # 0
      [] OTHER -> TRUE

\* How a call ends: with a returned value or with a raised exception.
Ret(v) == [kind |-> "return", value |-> v]
Raise(e) == [kind |-> "raise", value |-> PyExc(e)]
Nothing == [kind |-> "none", value |-> PyNone]

----------------------------------------------------------------------------
(* The property mapping table.                                             *)

_MAPPING_ledkey ==
    << [did |-> "power", siid |-> 2, piid |-> 1],
       [did |-> "fan_level", siid |-> 2, piid |-> 2],
       [did |-> "child_lock", siid |-> 3, piid |-> 1],
       [did |-> "swing_mode", siid |-> 2, piid |-> 3],
       [did |-> "power_off_time", siid |-> 2, piid |-> 10],
       [did |-> "buzzer", siid |-> 2, piid |-> 11],
       [did |-> "led", siid |-> 2, piid |-> 12],
       [did |-> "mode", siid |-> 2, piid |-> 7] >>

_MAPPING ==
    << [did |-> "power", siid |-> 2, piid |-> 1],
       [did |-> "fan_level", siid |-> 2, piid |-> 2],
       [did |-> "child_lock", siid |-> 3, piid |-> 1],
       [did |-> "swing_mode", siid |-> 2, piid |-> 3],
       [did |-> "power_off_time", siid |-> 2, piid |-> 10],
       [did |-> "buzzer", siid |-> 2, piid |-> 11],
       [did |-> "light", siid |-> 2, piid |-> 12],
       [did |-> "mode", siid |-> 2, piid |-> 7] >>

MappingKeys == {_MAPPING[i].did : i \in DOMAIN _MAPPING}

----------------------------------------------------------------------------
(* The transport: MiotDevice, constructed over _MAPPING.                   *)

\* What the adapter asks of the transport.
Write(attr, value) == [method |-> "set_property", did |-> attr, value |-> value]
ReadAll == [method |-> "get_properties_for_mapping", did |-> "", value |-> PyNone]

\* The exceptions the transport raises on a communication failure.
TransportErrors == {"DeviceException", "DeviceError"}

\* The acknowledgement set_property returns.
Ack == PyStr("ok")

\* The replies of the transport to one set_property call.
SetReplies == {Ret(Ack)} \cup {Raise(e) : e \in TransportErrors}

\* The non-zero MIoT status codes of a property the device could not read.
ErrorCodes == {-4001}

\* The raw values the device reports for a property.
RawValues(did) ==
    CASE did = "fan_level" -> {PyInt(1), PyInt(2), PyInt(3)}
      [] did = "mode" -> {PyInt(0), PyInt(1), PyInt(2)}
      [] did = "power_off_time" -> {PyInt(0), PyInt(120)}
      [] OTHER -> {PyInt(0), PyInt(1)}

\* The entries the transport may return for one property: none at all, the
\* property with status code 0 and its value, or the property with a non-zero
\* status code.  The value field of a failed entry is not read by status; it
\* holds a stale value, so that a reader of it would not go unnoticed.
EntryOptions(did) ==
    {<<>>}
    \cup {<<[did |-> did, code |-> 0, value |-> v]>> : v \in RawValues(did)}
    \cup {<<[did |-> did, code |-> c, value |-> PyInt(1)]>> : c \in ErrorCodes}

\* The responses to get_properties_for_mapping: entries in the table's order.
RECURSIVE ResponsesFrom(_)
ResponsesFrom(i) ==
    IF i > Len(_MAPPING)
    THEN {<<>>}
    ELSE {e \o rest : e \in EntryOptions(_MAPPING[i].did),
                      rest \in ResponsesFrom(i + 1)}

GetReplies ==
    {Ret(PyList(r)) : r \in ResponsesFrom(1)}
    \cup {Raise(e) : e \in TransportErrors}

----------------------------------------------------------------------------
(* FanStatus1C: the container over the data dictionary of one status query. *)

EmptyDict == [k \in {} |-> PyNone]

\* data[key] = value
DictSet(d, key, value) ==
    [k \in DOMAIN d \cup {key} |-> IF k = key THEN value ELSE d[k]]

\* self.data[key]: the stored value, or KeyError when the key is missing.
GetItem(d, key) == IF key \in DOMAIN d THEN Ret(d[key]) ELSE Raise("KeyError")

FanStatus1C(d) == [t |-> "FanStatus1C", v |-> d]

OperationMode(name) == [t |-> "OperationMode", v |-> name]

power(d) ==
    IF GetItem(d, "power").kind = "raise"
    THEN GetItem(d, "power")
    ELSE Ret(PyStr(IF Truthy(d["power"]) THEN "on" ELSE "off"))

is_on(d) == GetItem(d, "power")

mode_inverted(d) ==
    IF GetItem(d, "mode").kind = "raise"
    THEN GetItem(d, "mode")
    ELSE Ret(IF PyEq(d["mode"], PyInt(0))
             THEN OperationMode("Nature")
             ELSE OperationMode("Normal"))

mode(d) ==
    IF GetItem(d, "mode").kind = "raise"
    THEN GetItem(d, "mode")
    ELSE Ret(IF PyEq(d["mode"], PyInt(1))
             THEN OperationMode("Nature")
             ELSE OperationMode("Normal"))

speed(d) == GetItem(d, "fan_level")

oscillate(d) == GetItem(d, "swing_mode")

delay_off_countdown(d) == GetItem(d, "power_off_time")

led(d) == GetItem(d, "light")

buzzer(d) == GetItem(d, "buzzer")

child_lock(d) == GetItem(d, "child_lock")

\* The properties FanStatus1C defines.
StatusFields ==
    {"power", "is_on", "mode", "speed", "oscillate", "delay_off_countdown",
     "led", "buzzer", "child_lock"}

\* The key of data each property reads.
FieldKey(field) ==
    CASE field = "power" -> "power"
      [] field = "is_on" -> "power"
      [] field = "mode" -> "mode"
      [] field = "speed" -> "fan_level"
      [] field = "oscillate" -> "swing_mode"
      [] field = "delay_off_countdown" -> "power_off_time"
      [] field = "led" -> "light"
      [] field = "buzzer" -> "buzzer"
      [] field = "child_lock" -> "child_lock"

\* getattr(result, field) on a FanStatus1C over d.
GetAttr(d, field) ==
    CASE field = "power" -> power(d)
      [] field = "is_on" -> is_on(d)
      [] field = "mode" -> mode(d)
      [] field = "speed" -> speed(d)
      [] field = "oscillate" -> oscillate(d)
      [] field = "delay_off_countdown" -> delay_off_countdown(d)
      [] field = "led" -> led(d)
      [] field = "buzzer" -> buzzer(d)
      [] field = "child_lock" -> child_lock(d)
      [] OTHER -> Raise("AttributeError")

----------------------------------------------------------------------------
(* The status command.                                                     *)

\* The fields the command's output template reads from its result, in order.
TemplateFields ==
    <<"power", "mode", "speed", "oscillate", "angle", "led", "buzzer",
      "child_lock">>

\* Formatting the template over d from field i on, the values formatted so far
\* in done: the first field whose read raises ends the formatting.
RECURSIVE FormatFrom(_, _, _)
FormatFrom(d, i, done) ==
    IF i > Len(TemplateFields)
    THEN Ret(PyList(done))
    ELSE IF GetAttr(d, TemplateFields[i]).kind = "raise"
         THEN GetAttr(d, TemplateFields[i])
         ELSE FormatFrom(d, i + 1,
                         Append(done, GetAttr(d, TemplateFields[i]).value))

format_output(d) == FormatFrom(d, 1, <<>>)

\* The loop of status over the returned entries, from entry i on.
RECURSIVE StatusLoop_anycode(_, _, _)
StatusLoop_anycode(props, i, d) ==
    IF i > Len(props)
    THEN d
    ELSE StatusLoop_anycode(props, i + 1,
                            DictSet(d, props[i].did, props[i].value))

RECURSIVE StatusLoop(_, _, _)
StatusLoop(props, i, d) ==
    IF i > Len(props)
    THEN d
    ELSE StatusLoop(props, i + 1,
                    DictSet(d, props[i].did,
                            IF props[i].code = 0 THEN props[i].value ELSE PyNone))

StatusData_anycode(props) == StatusLoop_anycode(props, 1, EmptyDict)

\* data as status builds it from the entries the transport returned.
StatusData(props) == StatusLoop(props, 1, EmptyDict)

----------------------------------------------------------------------------
(* The commands of Fan1C.                                                  *)

IntArgs == (0 - ArgRange .. ArgRange) \cup {120}

Setters ==
    {"on", "off", "set_direct_speed", "set_oscillate", "set_buzzer",
     "set_child_lock", "set_natural_mode", "delay_off"}

\* if speed not in (1, 2, 3)
SpeedAllowed_zero(speed_) == speed_ \in 0 .. 3

SpeedAllowed(speed_) == speed_ \in {1, 2, 3}

\* if seconds < 0
DelayAllowed_positive(seconds) == seconds > 0

DelayAllowed(seconds) == ~(seconds < 0)

\* 1 if natural else 0
NaturalModeValue_bool(natural) == PyBool(natural)

NaturalModeValue(natural) == IF natural THEN PyInt(1) ELSE PyInt(0)

\* raise FanException(...): no transport call was made.
Rejected == [calls |-> <<>>, outcome |-> Raise("FanException")]

\* return self.set_property(attr, value), the transport replying rep to the
\* call: one call, and its value or its exception is the method's own.
Forward_retry(attr, value, rep) ==
    IF rep.kind = "raise"
    THEN [calls |-> <<Write(attr, value), Write(attr, value)>>, outcome |-> rep]
    ELSE [calls |-> <<Write(attr, value)>>, outcome |-> rep]

Forward(attr, value, rep) ==
    [calls |-> <<Write(attr, value)>>, outcome |-> rep]

\* The setter `name`, called with argument a, ends as res says, the transport
\* having replied rep.
Invoke(name, a, rep, res) ==
    /\ op' = name
    /\ arg' = a
    /\ reply' = rep
    /\ calls' = res.calls
    /\ outcome' = res.outcome
    /\ output' = Nothing

Init ==
    /\ op = "none"
    /\ arg = PyNone
    /\ reply = Nothing
    /\ calls = <<>>
    /\ outcome = Nothing
    /\ output = Nothing

\* status, called directly (cli = FALSE) or as the command line's command,
\* which formats the result with the command's output template.
status ==
    /\ op = "none"
    /\ \E rep \in GetReplies, cli \in BOOLEAN :
        /\ op' = "status"
        /\ arg' = PyNone
        /\ reply' = rep
        /\ calls' = <<ReadAll>>
        /\ outcome' = IF rep.kind = "raise"
                      THEN rep
                      ELSE Ret(FanStatus1C(StatusData(rep.value.v)))
        /\ output' = IF cli /\ rep.kind = "return"
                     THEN format_output(StatusData(rep.value.v))
                     ELSE Nothing

on ==
    /\ op = "none"
    /\ \E rep \in SetReplies :
        Invoke("on", PyNone, rep, Forward("power", PyBool(TRUE), rep))

off_true ==
    /\ op = "none"
    /\ \E rep \in SetReplies :
        Invoke("off", PyNone, rep, Forward("power", PyBool(TRUE), rep))

off ==
    /\ op = "none"
    /\ \E rep \in SetReplies :
        Invoke("off", PyNone, rep, Forward("power", PyBool(FALSE), rep))

set_direct_speed ==
    /\ op = "none"
    /\ \E speed_ \in IntArgs, rep \in SetReplies :
        IF ~SpeedAllowed(speed_)
        THEN Invoke("set_direct_speed", PyInt(speed_), Nothing, Rejected)
        ELSE Invoke("set_direct_speed", PyInt(speed_), rep,
                    Forward("fan_level", PyInt(speed_), rep))

set_oscillate ==
    /\ op = "none"
    /\ \E oscillate_ \in BOOLEAN, rep \in SetReplies :
        Invoke("set_oscillate", PyBool(oscillate_), rep,
               Forward("swing_mode", PyBool(oscillate_), rep))

set_buzzer ==
    /\ op = "none"
    /\ \E buzzer_ \in BOOLEAN, rep \in SetReplies :
        Invoke("set_buzzer", PyBool(buzzer_), rep,
               Forward("buzzer", PyBool(buzzer_), rep))

set_child_lock ==
    /\ op = "none"
    /\ \E lock \in BOOLEAN, rep \in SetReplies :
        Invoke("set_child_lock", PyBool(lock), rep,
               Forward("child_lock", PyBool(lock), rep))

set_natural_mode ==
    /\ op = "none"
    /\ \E natural \in BOOLEAN, rep \in SetReplies :
        Invoke("set_natural_mode", PyBool(natural), rep,
               Forward("mode", NaturalModeValue(natural), rep))

delay_off ==
    /\ op = "none"
    /\ \E seconds \in IntArgs, rep \in SetReplies :
        IF ~DelayAllowed(seconds)
        THEN Invoke("delay_off", PyInt(seconds), Nothing, Rejected)
        ELSE Invoke("delay_off", PyInt(seconds), rep,
                    Forward("power_off_time", PyInt(seconds), rep))

Next ==
    \/ status
    \/ on
    \/ off
    \/ set_direct_speed
    \/ set_oscillate
    \/ set_buzzer
    \/ set_child_lock
    \/ set_natural_mode
    \/ delay_off

Spec == Init /\ [][Next]_vars

----------------------------------------------------------------------------
(* Properties.                                                             *)

\* The entries of the response of a status call that returned, and its data.
Props == reply.value.v
Data == outcome.value.v

StatusReturned == op = "status" /\ reply.kind = "return"

PropDids == {Props[i].did : i \in DOMAIN Props}

\* Every mapped property has an entry in the response, with status code 0.
AllSucceeded ==
    /\ StatusReturned
    /\ PropDids = MappingKeys
    /\ \A i \in DOMAIN Props : Props[i].code = 0

\* The value the transport returned for the property did.
RawOf(did) == Props[CHOOSE i \in DOMAIN Props : Props[i].did = did].value

\* C1: set_direct_speed with a level in {1,2,3} issues exactly one transport
\* write, of fan_level with that level, and raises no error of its own (what
\* reaches the caller is the transport's reply); with any other level it
\* raises FanException and issues no transport call.
C1_SetSpeed ==
    op = "set_direct_speed" =>
        IF arg.v \in {1, 2, 3}
        THEN /\ calls = <<Write("fan_level", arg)>>
             /\ outcome = reply
             /\ outcome # Raise("FanException")
             /\ reply = Ret(Ack) => outcome.kind = "return"
        ELSE /\ calls = <<>>
             /\ outcome = Raise("FanException")

C1_Witness ==
    /\ op = "set_direct_speed"
    /\ arg = PyInt(0)
    /\ outcome = Raise("FanException")
    /\ calls = <<>>

\* C2: delay_off with seconds >= 0 (0 included) forwards exactly one transport
\* write of power_off_time with that value; with seconds < 0 it raises
\* FanException and issues no transport call.
C2_DelayOff ==
    op = "delay_off" =>
        IF arg.v >= 0
        THEN /\ calls = <<Write("power_off_time", arg)>>
             /\ outcome = reply
             /\ outcome # Raise("FanException")
             /\ reply = Ret(Ack) => outcome.kind = "return"
        ELSE /\ calls = <<>>
             /\ outcome = Raise("FanException")

C2_Witness ==
    /\ op = "delay_off"
    /\ arg = PyInt(0)
    /\ calls = <<Write("power_off_time", PyInt(0))>>
    /\ outcome = Ret(Ack)

\* C3: whatever subset of the returned properties carries a non-zero status
\* code, status raises nothing and returns a snapshot whose data holds None
\* for exactly those properties and the returned value for every property
\* with status code 0.
C3_PartialFailure ==
    StatusReturned =>
        /\ outcome.kind = "return"
        /\ outcome.value.t = "FanStatus1C"
        /\ DOMAIN Data = PropDids
        /\ \A i \in DOMAIN Props :
              /\ Props[i].code # 0 => Data[Props[i].did] = PyNone
              /\ Props[i].code = 0 =>
                    /\ Data[Props[i].did] = Props[i].value
                    /\ Data[Props[i].did] # PyNone

\* Only light failed; the seven other properties came back with code 0.
C3_Witness ==
    /\ StatusReturned
    /\ PropDids = MappingKeys
    /\ {Props[i].did : i \in {j \in DOMAIN Props : Props[j].code # 0}} = {"light"}
    /\ Data["light"] = PyNone
    /\ Data["fan_level"] = PyInt(2)

\* The raw values of the status query of the specification's round trip.
ExampleRaw(did) ==
    CASE did = "power" -> PyInt(1)
      [] did = "mode" -> PyInt(1)
      [] did = "fan_level" -> PyInt(2)
      [] did = "swing_mode" -> PyInt(0)
      [] did = "power_off_time" -> PyInt(120)
      [] did = "light" -> PyInt(1)
      [] did = "buzzer" -> PyInt(0)
      [] did = "child_lock" -> PyInt(1)

IsExample ==
    /\ AllSucceeded
    /\ \A i \in DOMAIN Props : Props[i].value = ExampleRaw(Props[i].did)

\* C4: when all eight properties came back with status code 0, power is "on"
\* iff the raw power is truthy, mode is Nature iff the raw mode equals 1 and
\* Normal otherwise, and speed, delay_off_countdown, oscillate, led, buzzer and
\* child_lock are the raw fan_level, power_off_time, swing_mode, light, buzzer
\* and child_lock; the round-trip example yields on, Nature, 2, false, 120,
\* true, false, true.
C4_DerivedFields ==
    /\ AllSucceeded =>
          /\ power(Data) =
                Ret(PyStr(IF Truthy(RawOf("power")) THEN "on" ELSE "off"))
          /\ mode(Data) =
                Ret(OperationMode(IF PyEq(RawOf("mode"), PyInt(1))
                                  THEN "Nature" ELSE "Normal"))
          /\ speed(Data) = Ret(RawOf("fan_level"))
          /\ delay_off_countdown(Data) = Ret(RawOf("power_off_time"))
          /\ oscillate(Data) = Ret(RawOf("swing_mode"))
          /\ led(Data) = Ret(RawOf("light"))
          /\ buzzer(Data) = Ret(RawOf("buzzer"))
          /\ child_lock(Data) = Ret(RawOf("child_lock"))
    /\ IsExample =>
          /\ power(Data) = Ret(PyStr("on"))
          /\ mode(Data) = Ret(OperationMode("Nature"))
          /\ PyEq(speed(Data).value, PyInt(2))
          /\ PyEq(oscillate(Data).value, PyBool(FALSE))
          /\ PyEq(delay_off_countdown(Data).value, PyInt(120))
          /\ PyEq(led(Data).value, PyBool(TRUE))
          /\ PyEq(buzzer(Data).value, PyBool(FALSE))
          /\ PyEq(child_lock(Data).value, PyBool(TRUE))

C4_Witness == IsExample /\ mode(Data) = Ret(OperationMode("Nature"))

\* C5: set_natural_mode(True) forwards exactly one write of mode with value 1,
\* set_natural_mode(False) exactly one write of mode with value 0, and it
\* writes no other value to mode.
C5_NaturalMode ==
    op = "set_natural_mode" =>
        /\ arg = PyBool(TRUE) => calls = <<Write("mode", PyInt(1))>>
        /\ arg = PyBool(FALSE) => calls = <<Write("mode", PyInt(0))>>
        /\ \A i \in DOMAIN calls :
              calls[i].did = "mode" => calls[i].value \in {PyInt(0), PyInt(1)}

C5_Witness ==
    /\ op = "set_natural_mode"
    /\ arg = PyBool(TRUE)
    /\ calls = <<Write("mode", PyInt(1))>>

\* C6: on, off, set_oscillate, set_buzzer and set_child_lock each issue exactly
\* one transport write and no read: on writes power=True, off power=False,
\* set_oscillate(b) swing_mode=b, set_buzzer(b) buzzer=b and set_child_lock(b)
\* child_lock=b.
C6_PlainSetters ==
    /\ op = "on" => calls = <<Write("power", PyBool(TRUE))>>
    /\ op = "off" => calls = <<Write("power", PyBool(FALSE))>>
    /\ op = "set_oscillate" => calls = <<Write("swing_mode", arg)>>
    /\ op = "set_buzzer" => calls = <<Write("buzzer", arg)>>
    /\ op = "set_child_lock" => calls = <<Write("child_lock", arg)>>

C6_Witness ==
    /\ op = "off"
    /\ calls = <<Write("power", PyBool(FALSE))>>
    /\ outcome = Ret(Ack)

\* C7: when set_property raises during a setter called with a valid argument,
\* the setter has made that one write call and no other, and the same
\* exception reaches the caller.
C7_NoRetry ==
    (op \in Setters /\ reply.kind = "raise") =>
        /\ Len(calls) = 1
        /\ calls[1].method = "set_property"
        /\ outcome = reply

C7_Witness ==
    /\ op = "set_buzzer"
    /\ reply = Raise("DeviceError")
    /\ outcome = Raise("DeviceError")
    /\ Len(calls) = 1

\* The properties of the snapshot whose field is absent: its key is missing
\* from data, or data holds None for it.
AbsentFields ==
    {f \in StatusFields :
        FieldKey(f) \notin DOMAIN Data \/ Data[FieldKey(f)] = PyNone}

\* C8: the properties of a snapshot treat an absent field under one policy:
\* either every property over an absent field raises, or every one returns
\* None; none reports a concrete value such as "off" or Normal.
C8_AbsentConsistent ==
    (StatusReturned /\ outcome.kind = "return") =>
        \/ \A f \in AbsentFields : GetAttr(Data, f).kind = "raise"
        \/ \A f \in AbsentFields : GetAttr(Data, f) = Ret(PyNone)

\* C9: every attribute a setter writes and every key a FanStatus1C property
\* reads is a key of _MAPPING (so that a status query whose properties all
\* succeeded serves every property), and no two entries of _MAPPING share
\* their key or their (siid, piid) pair.
C9_MappingClosed ==
    /\ \A i \in DOMAIN calls :
          calls[i].method = "set_property" => calls[i].did \in MappingKeys
    /\ {FieldKey(f) : f \in StatusFields} \subseteq MappingKeys
    /\ AllSucceeded => \A f \in StatusFields : GetAttr(Data, f).kind = "return"
    /\ \A i, j \in DOMAIN _MAPPING :
          i # j => /\ _MAPPING[i].did # _MAPPING[j].did
                   /\ <<_MAPPING[i].siid, _MAPPING[i].piid>>
                         # <<_MAPPING[j].siid, _MAPPING[j].piid>>

C9_Witness ==
    /\ AllSucceeded
    /\ led(Data) = Ret(PyInt(1))
    /\ delay_off_countdown(Data) = Ret(PyInt(120))

\* C10: every field the status command's output template reads is a property
\* of FanStatus1C: formatting the result of a status query whose properties
\* all succeeded does not fail.
C10_TemplateRenders ==
    (AllSucceeded /\ output # Nothing) => output.kind = "return"

====
